---------------------------- MODULE Spec2Model ----------------------------
(***************************************************************************)
(* Model of lib/galaxy/datatypes/assembly.py: the three velvet/AMOS        *)
(* sniffers (Amos, Sequences, Roadmaps) and the Velvet composite datatype. *)
(*                                                                         *)
(* Text is a sequence of one-character strings.  The regular expressions   *)
(* of the source are values of a small regex syntax, matched by a          *)
(* backtracking matcher that lists the possible match ends in the order    *)
(* Python's re tries them (greedy first).                                  *)
(***************************************************************************)
EXTENDS Integers, Sequences, FiniteSets, TLC

VARIABLES
  file_prefix,       \* text of the FilePrefix handed to a sniffer
  sniff_called,      \* which sniff_prefix has run ("none" before the call)
  sniff_result,      \* the boolean it returned
  composite_files,   \* Velvet.composite_files after __init__
  velveth_log,       \* the text velveth writes to <extra_files_path>/Log
  log_file,          \* state of <extra_files_path>/Log on disk
  paired_end_reads,  \* dataset.metadata.paired_end_reads
  long_reads,        \* dataset.metadata.long_reads
  short2_reads,      \* dataset.metadata.short2_reads
  info,              \* dataset.info
  primary_file,      \* content of dataset.file_name
  rval,              \* last value returned by generate_primary_file
  last_regen         \* the most recent regenerate_primary_file / set_meta call

sniff_vars == <<file_prefix, sniff_called, sniff_result>>
velvet_vars == <<composite_files, velveth_log, log_file, paired_end_reads,
                 long_reads, short2_reads, info, primary_file, rval, last_regen>>
vars == <<file_prefix, sniff_called, sniff_result, composite_files, velveth_log,
          log_file, paired_end_reads, long_reads, short2_reads, info,
          primary_file, rval, last_regen>>

----------------------------------------------------------------------------
(* Bounds of the model *)

MaxChunks == 5
MaxLogChunks == 2

----------------------------------------------------------------------------
(* Characters and sequence helpers *)

TAB == "\t"
NL == "\n"
Whitespace == {" ", "\t", "\n", "\r", "\f"}
Digits == {"0", "1", "2", "3", "4", "5", "6", "7", "8", "9"}

Take(s, n) == IF n >= Len(s) THEN s ELSE SubSeq(s, 1, n)

RECURSIVE ConcatRange(_, _, _)
ConcatRange(ss, lo, hi) ==
  IF lo > hi THEN <<>>
  ELSE IF lo = hi THEN ss[lo]
  ELSE LET mid == (lo + hi) \div 2
       IN ConcatRange(ss, lo, mid) \o ConcatRange(ss, mid + 1, hi)

ConcatAll(ss) == ConcatRange(ss, 1, Len(ss))

Min(S) == CHOOSE m \in S : \A n \in S : m <= n
Max(S) == CHOOSE m \in S : \A n \in S : m >= n

----------------------------------------------------------------------------
(* Regular expressions: syntax *)

Chr(c) == [op |-> "set", set |-> {c}, neg |-> FALSE]
AnyOf(S) == [op |-> "set", set |-> S, neg |-> FALSE]
NoneOf(S) == [op |-> "set", set |-> S, neg |-> TRUE]
Cat(rs) == [op |-> "cat", rs |-> rs]
Alt(rs) == [op |-> "alt", rs |-> rs]
Star(cls) == [op |-> "star", set |-> cls.set, neg |-> cls.neg]
Plus(cls) == Cat(<<cls, Star(cls)>>)
Opt(r) == Alt(<<r, Cat(<<>>)>>)
Eol == [op |-> "eol"]
Word(w) == Cat([k \in 1..Len(w) |-> Chr(w[k])])

ReDigit == AnyOf(Digits)
ReNonSpace == NoneOf(Whitespace)
ReDot == NoneOf({NL})

(* Regular expressions: matching.  Ends(r, s, i) lists, in the order a    *)
(* backtracking matcher tries them, the positions where a match of r      *)
(* that starts at position i of s can end.                                *)

InClass(r, c) == (c \in r.set) /= r.neg

\* where the longest run of characters of class r that starts at s[i] ends
RunEnd(r, s, i) ==
  Min({k \in i..Len(s) : ~InClass(r, s[k])} \cup {Len(s) + 1})

RECURSIVE Ends(_, _, _)
RECURSIVE EndsCat(_, _, _, _)

Ends(r, s, i) ==
  CASE r.op = "set" ->
         IF i <= Len(s) /\ InClass(r, s[i]) THEN <<i + 1>> ELSE <<>>
    [] r.op = "eol" ->
         IF i = Len(s) + 1 \/ (i = Len(s) /\ s[i] = NL) THEN <<i>> ELSE <<>>
    [] r.op = "star" ->
         LET j == RunEnd(r, s, i) IN [k \in 1..(j - i + 1) |-> j - k + 1]
    [] r.op = "alt" ->
         ConcatAll([k \in 1..Len(r.rs) |-> Ends(r.rs[k], s, i)])
    [] r.op = "cat" -> EndsCat(r.rs, 1, s, i)

EndsCat(rs, k, s, i) ==
  IF k > Len(rs) THEN <<i>>
  ELSE LET es == Ends(rs[k], s, i)
       IN ConcatAll([n \in 1..Len(es) |-> EndsCat(rs, k + 1, s, es[n])])

\* re.match(r, s) is not None
ReMatch(r, s) == Ends(r, s, 1) /= <<>>

\* re.search(r, s) is not None
ReSearch(r, s) == \E i \in 1..(Len(s) + 1) : Ends(r, s, i) /= <<>>

\* re.sub(r, repl, s) for an r that matches no empty string
RECURSIVE ReSubFrom(_, _, _, _)
ReSubFrom(r, repl, s, from) ==
  IF \A i \in from..Len(s) : Ends(r, s, i) = <<>>
  THEN SubSeq(s, from, Len(s))
  ELSE LET i == CHOOSE m \in from..Len(s) :
                  /\ Ends(r, s, m) /= <<>>
                  /\ \A n \in from..(m - 1) : Ends(r, s, n) = <<>>
           e == Head(Ends(r, s, i))
       IN SubSeq(s, from, i - 1) \o repl \o ReSubFrom(r, repl, s, e)

ReSub(r, repl, s) == ReSubFrom(r, repl, s, 1)

----------------------------------------------------------------------------
(* str methods and file iteration *)

\* str.strip()
strip(s) ==
  LET keep == {k \in 1..Len(s) : s[k] \notin Whitespace}
  IN IF keep = {} THEN <<>> ELSE SubSeq(s, Min(keep), Max(keep))

\* str.startswith(c) for a one-character prefix
startswith(s, c) == Len(s) >= 1 /\ s[1] = c

\* the lines a text stream yields, each with its terminator
RECURSIVE SplitLines(_)
SplitLines(text) ==
  IF text = <<>> THEN <<>>
  ELSE LET nls == {k \in 1..Len(text) : text[k] = NL}
       IN IF nls = {} THEN <<text>>
          ELSE LET n == Min(nls)
               IN <<SubSeq(text, 1, n)>> \o SplitLines(SubSeq(text, n + 1, Len(text)))

\* FilePrefix.line_iterator() and iteration over FilePrefix.string_io()
line_iterator(text) == SplitLines(text)
string_io(text) == SplitLines(text)

\* fh.readline() when the next unread line is lines[k]; "" at end of file
readline(lines, k) == IF k <= Len(lines) THEN lines[k] ELSE <<>>

----------------------------------------------------------------------------
(* The sniffers *)

\* r"{(RED|CTG|TLE)$"
AmosRe ==
  Cat(<<Chr("{"),
        Alt(<<Word(<<"R", "E", "D">>), Word(<<"C", "T", "G">>), Word(<<"T", "L", "E">>)>>),
        Eol>>)

\* r">[^\t]+\t\d+\t\d+$"
SequencesRe ==
  Cat(<<Chr(">"), Plus(NoneOf({TAB})), Chr(TAB), Plus(ReDigit), Chr(TAB), Plus(ReDigit), Eol>>)

\* r"\d+\t\d+\t\d+$"
RoadmapsHeaderRe ==
  Cat(<<Plus(ReDigit), Chr(TAB), Plus(ReDigit), Chr(TAB), Plus(ReDigit), Eol>>)

\* r"ROADMAP \d+$"
RoadmapRe ==
  Cat(<<Word(<<"R", "O", "A", "D", "M", "A", "P", " ">>), Plus(ReDigit), Eol>>)

\* Amos.sniff_prefix: the loop over file_prefix.line_iterator() from line k on
RECURSIVE AmosLoop(_, _)
AmosLoop(lines, k) ==
  IF k > Len(lines) THEN FALSE
  ELSE IF lines[k] = <<>> THEN FALSE
  ELSE LET line == strip(lines[k])
       IN IF line /= <<>> /\ startswith(line, "{") /\ ReMatch(AmosRe, line)
          THEN TRUE
          ELSE AmosLoop(lines, k + 1)

Amos_sniff_prefix(text) == AmosLoop(line_iterator(text), 1)

\* variant of the loop that accepts any line after the header
RECURSIVE SequencesLoop_AnyNextLine(_, _)
SequencesLoop_AnyNextLine(lines, k) ==
  IF k > Len(lines) THEN FALSE
  ELSE LET line == strip(lines[k])
       IN IF line /= <<>>
          THEN IF startswith(line, ">")
               THEN IF ~ReMatch(SequencesRe, line) THEN FALSE
                    ELSE strip(readline(lines, k + 1)) /= <<>>
               ELSE FALSE
          ELSE SequencesLoop_AnyNextLine(lines, k + 1)

\* Sequences.sniff_prefix: the loop over fh from line k on
RECURSIVE SequencesLoop(_, _)
SequencesLoop(lines, k) ==
  IF k > Len(lines) THEN FALSE
  ELSE LET line == strip(lines[k])
       IN IF line /= <<>>
          THEN IF startswith(line, ">")
               THEN IF ~ReMatch(SequencesRe, line) THEN FALSE
                    ELSE LET next_line == strip(readline(lines, k + 1))
                         IN IF next_line = <<>> \/ startswith(next_line, ">")
                            THEN FALSE
                            ELSE TRUE
               ELSE FALSE
          ELSE SequencesLoop(lines, k + 1)

Sequences_sniff_prefix(text) == SequencesLoop(string_io(text), 1)

\* Roadmaps.sniff_prefix: the loop over fh from line k on
RoadmapsLoop(lines, k) ==
  IF k > Len(lines) THEN FALSE
  ELSE LET line == strip(lines[k])
       IN IF line /= <<>>
          THEN IF ~ReMatch(RoadmapsHeaderRe, line) THEN FALSE
               ELSE ReMatch(RoadmapRe, strip(readline(lines, k + 1)))
          ELSE FALSE

Roadmaps_sniff_prefix(text) == RoadmapsLoop(string_io(text), 1)

----------------------------------------------------------------------------
(* Inputs of the sniffers: texts assembled from at most MaxChunks pieces *)

Texts(chunks, n) ==
  {ConcatAll(cs) : cs \in UNION {[1..k -> chunks] : k \in 0..n}}

AmosChunks ==
  {<<"{">>, <<"R", "E", "D">>, <<"C", "T", "G">>, <<"T", "L", "E">>,
   <<"X">>, <<" ">>, <<NL>>}

SequencesChunks ==
  {<<">", "a", TAB, "1">>, <<TAB, "1">>, <<" ", "1">>, <<NL>>,
   <<"a">>, <<" ">>, <<">">>}

RoadmapsChunks ==
  {<<"1", TAB, "1">>, <<TAB, "1">>, <<NL>>,
   <<"R", "O", "A", "D", "M", "A", "P", " ", "1">>, <<"1">>, <<" ">>, <<"x">>}

----------------------------------------------------------------------------
(* Sniffing: the datatype registry hands a file prefix to one sniffer *)

SniffIdle ==
  /\ file_prefix = <<>>
  /\ sniff_called = "none"
  /\ sniff_result = FALSE

AmosSniff ==
  /\ sniff_called = "none"
  /\ sniff_called' = "Amos"
  /\ sniff_result' = Amos_sniff_prefix(file_prefix)
  /\ UNCHANGED <<file_prefix, velvet_vars>>

SequencesSniff ==
  /\ sniff_called = "none"
  /\ sniff_called' = "Sequences"
  /\ sniff_result' = Sequences_sniff_prefix(file_prefix)
  /\ UNCHANGED <<file_prefix, velvet_vars>>

RoadmapsSniff ==
  /\ sniff_called = "none"
  /\ sniff_called' = "Roadmaps"
  /\ sniff_result' = Roadmaps_sniff_prefix(file_prefix)
  /\ UNCHANGED <<file_prefix, velvet_vars>>

----------------------------------------------------------------------------
(* The Velvet composite datatype *)

ReadLimit == 1000

\* truth value of a Python value, written as its repr
Truthy(v) == v \notin {"False", "None", "''"}
PyBool(b) == IF b THEN "True" ELSE "False"

\* default of the three MetadataElement flags: the string "False"
MetadataDefault == "'False'"

Sequences_name == <<"S", "e", "q", "u", "e", "n", "c", "e", "s">>
Roadmaps_name == <<"R", "o", "a", "d", "m", "a", "p", "s">>
Log_name == <<"L", "o", "g">>

\* Data.add_composite_file(name, description=..., optional=...)
add_composite_file(files, name, description, optional) ==
  Append(files, [name |-> name, description |-> description, optional |-> optional,
                 mimetype |-> "text/html", is_binary |-> "False",
                 substitute_name_with_metadata |-> "None"])

\* Velvet.__init__
Velvet_init ==
  add_composite_file(
    add_composite_file(
      add_composite_file(<<>>, Sequences_name, "'Sequences'", "False"),
      Roadmaps_name, "'Roadmaps'", "False"),
    Log_name, "'Log'", "'True'")

\* Data.get_composite_files(dataset).items(): (name, file) pairs in insertion order
get_composite_files(files) ==
  [k \in 1..Len(files) |-> [composite_name |-> files[k].name, composite_file |-> files[k]]]

\* one line of a rendered page
Line(tag, href, label, opt_text, gen_msg) ==
  [tag |-> tag, href |-> href, label |-> label, opt_text |-> opt_text, gen_msg |-> gen_msg]

TitleLine == Line("title", <<>>, <<>>, "", "")
ComposedOfLine == Line("composed_of", <<>>, <<>>, "", "")
VelvethDatasetLine == Line("velveth_dataset", <<>>, <<>>, "", "")
EndLine == Line("end", <<>>, <<>>, "", "")
GeneratedLine(gen_msg) == Line("generated", <<>>, <<>>, "", gen_msg)
Newline == Line("newline", <<>>, <<>>, "", "")

\* variant that takes the optional mark from the description
ListItem_OptionalFromDescription(item) ==
  LET fn == item.composite_name
      opt_text == IF Truthy(item.composite_file.description) THEN " (optional)" ELSE ""
  IN IF Truthy(item.composite_file.description)
     THEN Line("li", fn, <<fn, item.composite_file.description>>, opt_text, "")
     ELSE Line("li", fn, <<fn>>, opt_text, "")

\* the <li> line both renderers append for one composite file
ListItem(item) ==
  LET fn == item.composite_name
      opt_text == IF Truthy(item.composite_file.optional) THEN " (optional)" ELSE ""
  IN IF Truthy(item.composite_file.description)
     THEN Line("li", fn, <<fn, item.composite_file.description>>, opt_text, "")
     ELSE Line("li", fn, <<fn>>, opt_text, "")

\* "\n".join(rval)
RECURSIVE JoinLines(_)
JoinLines(lines) ==
  IF Len(lines) <= 1 THEN lines
  ELSE <<Head(lines), Newline>> \o JoinLines(Tail(lines))

\* Velvet.generate_primary_file
generate_primary_file(files) ==
  LET items == get_composite_files(files)
  IN JoinLines(<<TitleLine, ComposedOfLine>>
               \o [k \in 1..Len(items) |-> ListItem(items[k])]
               \o <<EndLine>>)

\* r"/\S*/"
PathRe == Cat(<<Chr("/"), Star(ReNonSpace), Chr("/")>>)

\* r"-(short|long)Paired"
PairedRe ==
  Cat(<<Chr("-"),
        Alt(<<Word(<<"s", "h", "o", "r", "t">>), Word(<<"l", "o", "n", "g">>)>>),
        Word(<<"P", "a", "i", "r", "e", "d">>)>>)

\* r"-long"
LongRe == Word(<<"-", "l", "o", "n", "g">>)

\* variant without the optional group: r"-short2"
Short2Re_NoPaired == Word(<<"-", "s", "h", "o", "r", "t", "2">>)

\* r"-short(Paired)?2"
Short2Re ==
  Cat(<<Word(<<"-", "s", "h", "o", "r", "t">>),
        Opt(Word(<<"P", "a", "i", "r", "e", "d">>)),
        Chr("2")>>)

\* r".*velveth \S+"
InfoRe ==
  Cat(<<Star(ReDot), Word(<<"v", "e", "l", "v", "e", "t", "h", " ">>), Plus(ReNonSpace)>>)

hash_length == <<"h", "a", "s", "h", "_", "l", "e", "n", "g", "t", "h">>

\* log_content = f.read(1000)
read_log(content) == Take(content, ReadLimit)

\* log_msg = re.sub(r"/\S*/", "", log_content)
clean_log(log_content) == ReSub(PathRe, <<>>, log_content)

derive_paired_end_reads(log_msg) == ReSearch(PairedRe, log_msg)
derive_long_reads(log_msg) == ReSearch(LongRe, log_msg)
derive_short2_reads(log_msg) == ReSearch(Short2Re, log_msg)

\* dataset.info = re.sub(r".*velveth \S+", "hash_length", re.sub(r"\n", " ", log_msg))
derive_info(log_msg) == ReSub(InfoRe, hash_length, ReSub(Chr(NL), <<" ">>, log_msg))

\* the caption built at the end of the try block
caption(paired, long) ==
  LET m1 == IF paired THEN "" \o " Paired-End Reads" ELSE ""
      m2 == IF long THEN m1 \o " Long Reads" ELSE m1
  IN IF Len(m2) > 0 THEN "Uses: " \o m2 ELSE m2

\* variant of the filter that looks for "log"
listed_on_regenerate_Lowercase(fn) == ~ReSearch(Word(<<"l", "o", "g">>), fn)

\* the filter of the second loop: re.search("Log", fn) is None
listed_on_regenerate(fn) == ~ReSearch(Word(<<"L", "o", "g">>), fn)

\* the page regenerate_primary_file builds for a caption
regenerated_page(files, gen_msg) ==
  LET items == get_composite_files(files)
      shown == SelectSeq(items, LAMBDA it : listed_on_regenerate(it.composite_name))
  IN JoinLines(<<TitleLine, GeneratedLine(gen_msg), VelvethDatasetLine>>
               \o [k \in 1..Len(shown) |-> ListItem(shown[k])]
               \o <<EndLine>>)

\* variant that opens the file in append mode
write_primary_Append(old, page) == old \o page \o <<Newline>>

\* open(dataset.file_name, "w"): f.write("\n".join(rval)); f.write("\n")
write_primary(old, page) == page \o <<Newline>>

----------------------------------------------------------------------------
(* Inputs of the Velvet datatype: the Log texts velveth may have written *)

LogChunks ==
  {<<"-", "s", "h", "o", "r", "t">>, <<"-", "l", "o", "n", "g">>,
   <<"-", "s", "h", "o", "r", "t", "P", "a", "i", "r", "e", "d">>,
   <<"-", "l", "o", "n", "g", "P", "a", "i", "r", "e", "d">>,
   <<"2">>, <<"/">>, <<"/", "a">>, <<"a">>, <<" ">>, <<NL>>,
   <<"v", "e", "l", "v", "e", "t", "h", " ">>}

Repeat(c, n) == [k \in 1..n |-> c]

\* "velveth aaa...a <chunk>", the chunk starting `room` characters before ReadLimit
LongLog(room, chunk) ==
  <<"v", "e", "l", "v", "e", "t", "h", " ">>
    \o Repeat("a", ReadLimit - room - 9) \o <<" ">> \o chunk

LongLogs ==
  {LongLog(3, <<"-", "l", "o", "n", "g">>),
   LongLog(5, <<"-", "l", "o", "n", "g">>),
   LongLog(6, <<"-", "s", "h", "o", "r", "t", "2">>),
   LongLog(12, <<"-", "s", "h", "o", "r", "t", "P", "a", "i", "r", "e", "d", "2">>)}

\* the log of the documentation: "velveth -shortPaired2 -long /some/path/x"
DocLog ==
  <<"v", "e", "l", "v", "e", "t", "h", " ",
    "-", "s", "h", "o", "r", "t", "P", "a", "i", "r", "e", "d", "2", " ",
    "-", "l", "o", "n", "g", " ",
    "/", "s", "o", "m", "e", "/", "p", "a", "t", "h", "/", "x">>

\* a typical velveth log: command line, hash length, a path, a second line
TypicalLog ==
  <<"/", "b", "i", "n", "/", "v", "e", "l", "v", "e", "t", "h", " ",
    "/", "a", "/", "o", "u", "t", " ", "2", "1", " ",
    "-", "s", "h", "o", "r", "t", " ", "/", "a", "/", "r", NL, "o", "k">>

LogInputs == Texts(LogChunks, MaxLogChunks) \cup LongLogs \cup {DocLog, TypicalLog}

----------------------------------------------------------------------------
(* The Velvet datatype and one dataset of it *)

NoCall == [op |-> "none", outcome |-> "none", log |-> "none", content |-> <<>>, again |-> FALSE]

VelvetIdle ==
  /\ composite_files = Velvet_init
  /\ velveth_log = <<>>
  /\ log_file = [state |-> "absent", content |-> <<>>]
  /\ paired_end_reads = MetadataDefault
  /\ long_reads = MetadataDefault
  /\ short2_reads = MetadataDefault
  /\ info = <<>>
  /\ primary_file = <<>>
  /\ rval = <<>>
  /\ last_regen = NoCall

\* velveth writes <extra_files_path>/Log
WriteLog ==
  /\ log_file /= [state |-> "present", content |-> velveth_log]
  /\ log_file' = [state |-> "present", content |-> velveth_log]
  /\ UNCHANGED <<sniff_vars, composite_files, velveth_log, paired_end_reads, long_reads,
                 short2_reads, info, primary_file, rval, last_regen>>

\* the Log file is deleted
RemoveLog ==
  /\ log_file.state /= "absent"
  /\ log_file' = [state |-> "absent", content |-> <<>>]
  /\ UNCHANGED <<sniff_vars, composite_files, velveth_log, paired_end_reads, long_reads,
                 short2_reads, info, primary_file, rval, last_regen>>

\* the Log file loses its read permission
ProtectLog ==
  /\ log_file.state = "present"
  /\ log_file' = [log_file EXCEPT !.state = "unreadable"]
  /\ UNCHANGED <<sniff_vars, composite_files, velveth_log, paired_end_reads, long_reads,
                 short2_reads, info, primary_file, rval, last_regen>>

GeneratePrimaryFile ==
  /\ rval' = generate_primary_file(composite_files)
  /\ rval' /= rval
  /\ UNCHANGED <<sniff_vars, composite_files, velveth_log, log_file, paired_end_reads,
                 long_reads, short2_reads, info, primary_file, last_regen>>

\* variant of the except block that resets the metadata
except_handler_Reset ==
  /\ paired_end_reads' = "False"
  /\ long_reads' = "False"
  /\ short2_reads' = "False"
  /\ info' = <<>>

\* the except block: it only logs, dataset.metadata and dataset.info are not touched
except_handler == UNCHANGED <<paired_end_reads, long_reads, short2_reads, info>>

\* Velvet.regenerate_primary_file(dataset); efp_ok: dataset.extra_files_path returns
regenerate_primary_file(op, efp_ok) ==
  IF ~efp_ok
  THEN \* the handler's log.debug reads the unbound efp: the call raises
       /\ last_regen' = [op |-> op, outcome |-> "raised", log |-> "failed",
                         content |-> <<>>, again |-> FALSE]
       /\ UNCHANGED <<paired_end_reads, long_reads, short2_reads, info, primary_file>>
  ELSE IF log_file.state /= "present"
  THEN \* open() or read() raises, the handler swallows it
       /\ primary_file' = write_primary(primary_file, regenerated_page(composite_files, ""))
       /\ last_regen' = [op |-> op, outcome |-> "returned", log |-> "failed",
                         content |-> <<>>, again |-> FALSE]
       /\ except_handler
  ELSE LET log_msg == clean_log(read_log(log_file.content))
           paired == derive_paired_end_reads(log_msg)
           long == derive_long_reads(log_msg)
           short2 == derive_short2_reads(log_msg)
       IN /\ paired_end_reads' = PyBool(paired)
          /\ long_reads' = PyBool(long)
          /\ short2_reads' = PyBool(short2)
          /\ info' = derive_info(log_msg)
          /\ primary_file' = write_primary(primary_file,
                               regenerated_page(composite_files, caption(paired, long)))
          /\ last_regen' = [op |-> op, outcome |-> "returned", log |-> "read",
                            content |-> log_file.content,
                            again |-> (last_regen.log = "read"
                                       /\ last_regen.content = log_file.content)]

RegeneratePrimaryFile ==
  /\ \E efp_ok \in BOOLEAN : regenerate_primary_file("regenerate_primary_file", efp_ok)
  /\ UNCHANGED <<sniff_vars, composite_files, velveth_log, log_file, rval>>

\* Velvet.set_meta: Html.set_meta (which touches none of the fields modelled
\* here), then regenerate_primary_file
SetMeta ==
  /\ \E efp_ok \in BOOLEAN : regenerate_primary_file("set_meta", efp_ok)
  /\ UNCHANGED <<sniff_vars, composite_files, velveth_log, log_file, rval>>

----------------------------------------------------------------------------
(* Specifications *)

InitAmos == file_prefix \in Texts(AmosChunks, MaxChunks) /\ sniff_called = "none"
            /\ sniff_result = FALSE /\ VelvetIdle
InitSequences == file_prefix \in Texts(SequencesChunks, MaxChunks) /\ sniff_called = "none"
                 /\ sniff_result = FALSE /\ VelvetIdle
InitRoadmaps == file_prefix \in Texts(RoadmapsChunks, MaxChunks) /\ sniff_called = "none"
                /\ sniff_result = FALSE /\ VelvetIdle
\* a freshly created dataset: default metadata, no info, nothing written yet,
\* and velveth has not written its Log
Init ==
  /\ SniffIdle
  /\ composite_files = Velvet_init
  /\ velveth_log \in LogInputs
  /\ log_file = [state |-> "absent", content |-> <<>>]
  /\ paired_end_reads = MetadataDefault
  /\ long_reads = MetadataDefault
  /\ short2_reads = MetadataDefault
  /\ info = <<>>
  /\ primary_file = <<>>
  /\ rval = <<>>
  /\ last_regen = NoCall

NextAmos == AmosSniff
NextSequences == SequencesSniff
NextRoadmaps == RoadmapsSniff
Next ==
  \/ WriteLog
  \/ RemoveLog
  \/ ProtectLog
  \/ GeneratePrimaryFile
  \/ RegeneratePrimaryFile
  \/ SetMeta

SpecAmos == InitAmos /\ [][NextAmos]_vars
SpecSequences == InitSequences /\ [][NextSequences]_vars
SpecRoadmaps == InitRoadmaps /\ [][NextRoadmaps]_vars
Spec == Init /\ [][Next]_vars

----------------------------------------------------------------------------
(* Vocabulary of the properties *)

\* the lines of a text and the first of them that is not blank
NonBlankLines(text) ==
  {k \in 1..Len(SplitLines(text)) : strip(SplitLines(text)[k]) /= <<>>}
HasNonBlankLine(text) == NonBlankLines(text) /= {}
FirstNonBlank(text) == Min(NonBlankLines(text))
TrimmedLine(text, k) == strip(readline(SplitLines(text), k))

IsDigitRun(s) == s /= <<>> /\ \A k \in 1..Len(s) : s[k] \in Digits

\* three tab-separated runs of digits and nothing else
IsThreeInts(l) ==
  \E i, j \in 1..Len(l) :
    /\ i < j /\ l[i] = TAB /\ l[j] = TAB
    /\ IsDigitRun(SubSeq(l, 1, i - 1))
    /\ IsDigitRun(SubSeq(l, i + 1, j - 1))
    /\ IsDigitRun(SubSeq(l, j + 1, Len(l)))

\* "ROADMAP " followed by digits and nothing else
IsRoadmapLine(l) ==
  /\ Len(l) > 8
  /\ SubSeq(l, 1, 8) = <<"R", "O", "A", "D", "M", "A", "P", " ">>
  /\ IsDigitRun(SubSeq(l, 9, Len(l)))

\* ">", a name without tabs, a tab, digits, a tab, digits and nothing else
IsIndexedHeader(l) ==
  \E i, j \in 1..Len(l) :
    /\ 2 < i /\ i < j /\ l[1] = ">" /\ l[i] = TAB /\ l[j] = TAB
    /\ \A k \in 2..(i - 1) : l[k] /= TAB
    /\ IsDigitRun(SubSeq(l, i + 1, j - 1))
    /\ IsDigitRun(SubSeq(l, j + 1, Len(l)))

AmosTokens == {<<"{", "R", "E", "D">>, <<"{", "C", "T", "G">>, <<"{", "T", "L", "E">>}

Contains(text, w) ==
  \E i \in 1..(Len(text) - Len(w) + 1) : SubSeq(text, i, i + Len(w) - 1) = w

\* the maximal runs of non-blank characters of a text, as <<first, last>>
Tokens(text) ==
  {<<lo, Min({k \in lo..Len(text) : text[k] \in Whitespace} \cup {Len(text) + 1}) - 1>> :
     lo \in {k \in 1..Len(text) :
               text[k] \notin Whitespace /\ (k = 1 \/ text[k - 1] \in Whitespace)}}

\* a token without its path-like part: from its first "/" to its last "/"
WithoutPath(tok) ==
  LET slashes == {k \in 1..Len(tok) : tok[k] = "/"}
  IN IF Cardinality(slashes) < 2 THEN tok
     ELSE SubSeq(tok, 1, Min(slashes) - 1) \o SubSeq(tok, Max(slashes) + 1, Len(tok))

\* word w occurs in the first 1000 characters of a log once paths are removed
CleanedLogContains(content, w) ==
  LET text == SubSeq(content, 1, Min({Len(content), 1000}))
  IN \E t \in Tokens(text) : Contains(WithoutPath(SubSeq(text, t[1], t[2])), w)

IsFalseFlag(v) == v \in {"False", MetadataDefault}

\* the names the <li> lines of a page link to, in page order
ListedNames(page) ==
  LET items == SelectSeq(page, LAMBDA l : l.tag = "li")
  IN [k \in 1..Len(items) |-> items[k].href]

RegenRan == last_regen.op \in {"regenerate_primary_file", "set_meta"}

----------------------------------------------------------------------------
(* Properties *)

\* C1: Amos.sniff_prefix returns true iff the first non-blank line, trimmed,
\* is exactly {RED, {CTG or {TLE; lines after it do not matter.
C1_AmosFirstLineDecides ==
  sniff_called = "Amos" =>
    sniff_result = (/\ HasNonBlankLine(file_prefix)
                    /\ TrimmedLine(file_prefix, FirstNonBlank(file_prefix)) \in AmosTokens)

\* C2: Roadmaps.sniff_prefix returns true iff the first non-blank line (blank
\* lines before it skipped), trimmed, is three tab-separated digit runs and the
\* line right after it, trimmed, is "ROADMAP " plus digits.
C2_RoadmapsSkipsBlankLines ==
  sniff_called = "Roadmaps" =>
    sniff_result = (/\ HasNonBlankLine(file_prefix)
                    /\ IsThreeInts(TrimmedLine(file_prefix, FirstNonBlank(file_prefix)))
                    /\ IsRoadmapLine(TrimmedLine(file_prefix, FirstNonBlank(file_prefix) + 1)))

\* C3: Sequences.sniff_prefix returns true iff the first non-blank line, trimmed,
\* is an indexed FASTA header and the very next raw line, trimmed, is non-empty
\* and does not start with ">".
C3_SequencesContract ==
  sniff_called = "Sequences" =>
    sniff_result =
      (/\ HasNonBlankLine(file_prefix)
       /\ IsIndexedHeader(TrimmedLine(file_prefix, FirstNonBlank(file_prefix)))
       /\ LET nxt == TrimmedLine(file_prefix, FirstNonBlank(file_prefix) + 1)
          IN nxt /= <<>> /\ nxt[1] /= ">")

\* a valid indexed FASTA file behind a blank line is recognised
C3_Witness ==
  /\ sniff_called = "Sequences"
  /\ sniff_result
  /\ FirstNonBlank(file_prefix) > 1

\* C4: whenever the most recent regenerate_primary_file / set_meta call found the
\* Log absent or unreadable, the three flags are false and info is empty.
C4_FailedReadResetsFlags ==
  (RegenRan /\ last_regen.outcome = "returned" /\ last_regen.log = "failed") =>
    /\ IsFalseFlag(paired_end_reads)
    /\ IsFalseFlag(long_reads)
    /\ IsFalseFlag(short2_reads)
    /\ info = <<>>

\* C5: regenerate_primary_file never raises because of the Log file; when the
\* log-reading block fails the manifest is still written, with an empty caption.
C5_LogFailureSwallowed ==
  RegenRan =>
    /\ last_regen.outcome = "returned"
    /\ last_regen.log = "failed" =>
         primary_file = write_primary(<<>>, regenerated_page(composite_files, ""))

C7_Idempotent ==
  [][last_regen'.again =>
       /\ paired_end_reads' = paired_end_reads
       /\ long_reads' = long_reads
       /\ short2_reads' = short2_reads
       /\ info' = info
       /\ primary_file' = primary_file]_vars

\* two calls in a row have read the same log, one that sets flags and info
C7_Witness ==
  /\ last_regen.again
  /\ paired_end_reads = "True"
  /\ info /= <<>>

\* C8: the manifest written by regenerate_primary_file lists Sequences, then
\* Roadmaps, each once, and never Log.
C8_RegeneratedOmitsLog ==
  primary_file /= <<>> => ListedNames(primary_file) = <<Sequences_name, Roadmaps_name>>

\* a manifest has been written by a call that could not read the Log
C8_Witness ==
  /\ primary_file /= <<>>
  /\ last_regen.outcome = "returned" /\ last_regen.log = "failed"
  /\ log_file.state = "unreadable"

\* C9: generate_primary_file lists Sequences, Roadmaps, Log in this order, each
\* once, with " (optional)" exactly on the entries declared optional (only Log).
C9_GeneratedListsAll ==
  rval /= <<>> =>
    LET items == SelectSeq(rval, LAMBDA l : l.tag = "li")
    IN /\ ListedNames(rval) = <<Sequences_name, Roadmaps_name, Log_name>>
       /\ \A k \in 1..Len(items) :
            /\ (items[k].opt_text = " (optional)") <=> Truthy(composite_files[k].optional)
            /\ (items[k].opt_text = " (optional)") <=> (items[k].href = Log_name)
            /\ items[k].opt_text \in {"", " (optional)"}

C9_Witness ==
  /\ rval /= <<>>
  /\ Len(SelectSeq(rval, LAMBDA l : l.opt_text = " (optional)")) = 1

\* C10: a call that cannot open or read the Log leaves the three flags and info
\* exactly as they were.
C10_FailedReadKeepsMetadata ==
  [][last_regen'.log = "failed" =>
       /\ paired_end_reads' = paired_end_reads
       /\ long_reads' = long_reads
       /\ short2_reads' = short2_reads
       /\ info' = info
       /\ composite_files' = composite_files]_vars

\* flags and info set by an earlier call have survived a call without the Log
C10_Witness ==
  /\ last_regen.outcome = "returned" /\ last_regen.log = "failed"
  /\ long_reads = "True"
  /\ info /= <<>>

=============================================================================
